---- MODULE Spec2Model ----
(***************************************************************************)
(* Model of reduce_openapi_spec.py: loading an OpenAPI document into a     *)
(* schema index and an operation catalog (load_api_spec, parse_path,       *)
(* add_schemas_from_operation, add_missing_schemas) and building the       *)
(* reduced document from a selection (script lines 116-148).               *)
(*                                                                         *)
(* Text is modelled as a sequence of tokens: one token per character of a  *)
(* schema name, one token for the literal "#/components/schemas/" and one  *)
(* for the double quote that ends a JSON string.  Python objects that are  *)
(* mutated in place (the document dict and its "components" dict) live in  *)
(* a heap keyed by reference, so that copy.deepcopy is distinguishable     *)
(* from an alias.  Tags, summaries and the grouping by tag are left out:   *)
(* nothing that is checked here reads them.                                *)
(***************************************************************************)
EXTENDS Integers, Sequences, FiniteSets, TLC

(* ------------------------------ bounds -------------------------------- *)

\* Largest number of "$ref" occurrences, summed over all schema bodies, in the
\* documents with one operation and an unrestricted schema index.
MaxRefs == 2

\* Largest number of operations in the documents with several operations.
MaxOps == 2

(* ------------------------------- text --------------------------------- *)

\* The characters the regular expression class \w matches, among those used.
WordChars == {"A", "B"}

NameA == <<"A">>
NameB == <<"B">>
\* A legal component name ([a-zA-Z0-9._-]+) that holds a non-word character.
NameAB == <<"A", ".", "B">>

SchemaNames == {NameA, NameB, NameAB}

RefPrefix == "#/components/schemas/"
Quote == "\""

\* The value of a "$ref" member that points at schema n.
Ref(n) == <<RefPrefix>> \o n

\* json.dumps of a schema object.  A schema object is modelled by the "$ref"
\* strings it holds, in serialisation order; each is written as a JSON string.
RECURSIVE Dumps(_)
Dumps(v) ==
    IF v = <<>> THEN <<>>
    ELSE <<Quote>> \o Head(v) \o <<Quote>> \o Dumps(Tail(v))

\* The greedy run of \w characters at the start of t.
RECURSIVE WordRun(_)
WordRun(t) ==
    IF t # <<>> /\ Head(t) \in WordChars
    THEN <<Head(t)>> \o WordRun(Tail(t))
    ELSE <<>>

\* re.findall(r"#/components/schemas/(\w+)", t): the captured groups, in order.
RECURSIVE FindAll(_)
FindAll(t) ==
    IF t = <<>> THEN <<>>
    ELSE IF Head(t) = RefPrefix /\ WordRun(Tail(t)) # <<>>
         THEN <<WordRun(Tail(t))>>
              \o FindAll(SubSeq(Tail(t), Len(WordRun(Tail(t))) + 1, Len(Tail(t))))
         ELSE FindAll(Tail(t))

\* schema.replace("#/components/schemas/", "")
StripPrefix(s) == SelectSeq(s, LAMBDA c : c # RefPrefix)

(* ------------------------------ helpers ------------------------------- *)

Range(s) == {s[i] : i \in DOMAIN s}

NoDuplicates(s) == \A i, j \in DOMAIN s : s[i] = s[j] => i = j

RECURSIVE SumLen(_)
SumLen(ss) == IF ss = <<>> THEN 0 ELSE Len(Head(ss)) + SumLen(Tail(ss))

RECURSIVE SeqsUpTo(_, _)
SeqsUpTo(S, n) ==
    IF n = 0 THEN {<<>>}
    ELSE LET shorter == SeqsUpTo(S, n - 1)
         IN  shorter \cup {Append(s, x) : s \in shorter, x \in S}

\* The orders in which a list built from the set S can come out.
Orderings(S) ==
    {s \in [1..Cardinality(S) -> S] : Range(s) = S}

(* ----------------------------- documents ------------------------------ *)

Ids == {"x", "y"}
Slots == {<<"/p", "get">>, <<"/p", "post">>, <<"/q", "get">>}

\* A media type entry whose schema is {"$ref": ...}, and one whose schema is
\* inline and holds the reference in a nested position (e.g. array items).
RefMedia(n) == [ref |-> <<Ref(n)>>, nested |-> <<>>]
InlineMedia(n) == [ref |-> <<>>, nested |-> <<Ref(n)>>]

\* A request body or a response: with a "content" mapping, or without one.
WithContent(ms) == [hasContent |-> TRUE, content |-> ms]
WithoutContent == [hasContent |-> FALSE, content |-> <<>>]

\* An operation object.  requestBody is a sequence of length 0 (member absent)
\* or 1; responses.present tells whether the "responses" member exists.
OpObject(id, body, hasResponses, resps) ==
    [operationId |-> id,
     requestBody |-> body,
     responses |-> [present |-> hasResponses, values |-> resps]]

\* Schema indexes over the names in `names` whose bodies hold at most `n`
\* references in total.
TotalRefs(idx) ==
    LET RECURSIVE Sum(_)
        Sum(K) == IF K = {} THEN 0
                  ELSE LET k == CHOOSE k \in K : TRUE
                       IN  Len(idx[k]) + Sum(K \ {k})
    IN  Sum(DOMAIN idx)

SchemaMaps(names, targets, n) ==
    LET bodies == SeqsUpTo({Ref(t) : t \in targets}, n)
    IN  {idx \in UNION {[K -> bodies] : K \in SUBSET names} : TotalRefs(idx) <= n}

\* Documents with one operation and any schema index of up to MaxRefs references.
ClosureOps ==
    {OpObject("x", body, TRUE, resps) :
        body \in {<<>>} \cup {<<WithContent(<<RefMedia(n)>>)>> : n \in SchemaNames},
        resps \in {<<>>} \cup {<<WithContent(<<RefMedia(n)>>)>> : n \in SchemaNames}}

ClosureDocuments ==
    {[paths |-> [p \in {"/p"} |-> [v \in {"get"} |-> op]], schemas |-> idx] :
        op \in ClosureOps, idx \in SchemaMaps(SchemaNames, SchemaNames, MaxRefs)}

\* Documents with up to MaxOps operations over three (path, verb) slots.
CatalogOps ==
    {OpObject(id, <<>>, FALSE, <<>>) : id \in Ids}
    \cup {OpObject(id, <<>>, TRUE, resps) :
            id \in Ids,
            resps \in {<<>>, <<WithoutContent>>, <<WithContent(<<InlineMedia(NameA)>>)>>}
                      \cup {<<WithContent(<<RefMedia(n)>>)>> : n \in {NameA, NameB}}}

CatalogIndexes ==
    {idx \in SchemaMaps({NameA, NameB}, {NameB}, 1) :
        NameB \in DOMAIN idx => idx[NameB] = <<>>}

PathMaps ==
    LET items(p) == UNION {[V -> CatalogOps] :
                             V \in SUBSET {s[2] : s \in {t \in Slots : t[1] = p}}}
        count(m) == LET RECURSIVE Sum(_)
                        Sum(P) == IF P = {} THEN 0
                                  ELSE LET p == CHOOSE p \in P : TRUE
                                       IN  Cardinality(DOMAIN m[p]) + Sum(P \ {p})
                    IN  Sum(DOMAIN m)
        p1 == {<<>>} \cup {[p \in {"/p"} |-> i] : i \in items("/p")}
        q1 == {<<>>} \cup {[p \in {"/q"} |-> i] : i \in items("/q")}
        both == {[p \in {"/p", "/q"} |-> IF p = "/p" THEN i ELSE j] :
                    i \in items("/p"), j \in items("/q")}
    IN  {m \in p1 \cup q1 \cup both : count(m) <= MaxOps}

CatalogDocuments ==
    {[paths |-> m, schemas |-> idx] : m \in PathMaps, idx \in CatalogIndexes}

Documents == ClosureDocuments \cup CatalogDocuments

(* ------------------------------- state -------------------------------- *)

\* References of the heap objects.
SpecRef == "spec"
SpecComponentsRef == "spec.components"
CopyRef == "copy"
CopyComponentsRef == "copy.components"

VARIABLES
    tops,             \* heap: document dicts, [paths, components (a reference)]
    comps,            \* heap: "components" dicts, [schemas]
    all_schemas,      \* load_api_spec's `schemas`: name -> json.dumps of the body
    pathsLeft,        \* paths the loop of line 84 has not reached yet
    curPath,          \* parse_path's `path`
    verbsLeft,        \* verbs the loop of line 47 has not reached yet
    curVerb,          \* parse_path's `verb`
    result,           \* parse_path's `result`
    schemas,          \* parse_path's `schemas` list
    todo,             \* members of set(schemas) the loop of line 54 has not reached
    stack,            \* add_missing_schemas frames: what is left of each new_matches
    expanded,         \* history: the names add_missing_schemas was called with, per operation
    operations_list,  \* load_api_spec's `operations_list`
    operations,       \* the catalog: op_id -> Operation
    selected,         \* selected_operations, as a set
    reduced_spec,     \* reference of the reduced document ("" before the first reduction)
    pc,
    err

vars == <<tops, comps, all_schemas, pathsLeft, curPath, verbsLeft, curVerb, result,
          schemas, todo, stack, expanded, operations_list, operations, selected,
          reduced_spec, pc, err>>

\* spec["paths"] and spec["components"]["schemas"], read through the heap.
PathsAt(t, r) == t[r].paths
SchemasAt(t, c, r) == c[t[r].components].schemas
SpecPaths == PathsAt(tops, SpecRef)
SpecSchemas == SchemasAt(tops, comps, SpecRef)

\* The state when the script starts on an uploaded document out of `docs`.
Start(docs) ==
    /\ \E d \in docs :
        /\ tops = [r \in {SpecRef} |-> [paths |-> d.paths, components |-> SpecComponentsRef]]
        /\ comps = [r \in {SpecComponentsRef} |-> [schemas |-> d.schemas]]
    /\ all_schemas = <<>>
    /\ pathsLeft = {}
    /\ curPath = ""
    /\ verbsLeft = {}
    /\ curVerb = ""
    /\ result = <<>>
    /\ schemas = <<>>
    /\ todo = {}
    /\ stack = <<>>
    /\ expanded = <<>>
    /\ operations_list = <<>>
    /\ operations = <<>>
    /\ selected = {}
    /\ reduced_spec = ""
    /\ pc = "load"
    /\ err = ""

Init == Start(Documents)

Fail(e) == pc' = "error" /\ err' = e

(* --------------------------- load_api_spec ---------------------------- *)

\* Line 81: the schema index, each body serialised.
LoadApiSpec ==
    /\ pc = "load"
    /\ all_schemas' = [k \in DOMAIN SpecSchemas |-> Dumps(SpecSchemas[k])]
    /\ pathsLeft' = DOMAIN SpecPaths
    /\ pc' = "paths"
    /\ UNCHANGED <<tops, comps, curPath, verbsLeft, curVerb, result, schemas, todo,
                   stack, expanded, operations_list, operations, selected,
                   reduced_spec, err>>

\* Lines 84-85 and 46: the next path, in the document's key order, enters parse_path.
NextPath ==
    /\ pc = "paths"
    /\ \E p \in pathsLeft :
        /\ curPath' = p
        /\ pathsLeft' = pathsLeft \ {p}
        /\ verbsLeft' = DOMAIN SpecPaths[p]
    /\ result' = <<>>
    /\ pc' = "verbs"
    /\ UNCHANGED <<tops, comps, all_schemas, curVerb, schemas, todo, stack, expanded,
                   operations_list, operations, selected, reduced_spec, err>>

\* Lines 35-42.
RECURSIVE AddMedia(_, _)
AddMedia(ms, list) ==
    IF ms = <<>> THEN list
    ELSE AddMedia(Tail(ms),
                  IF Head(ms).ref # <<>>
                  THEN Append(list, StripPrefix(Head(ms).ref[1]))
                  ELSE list)

add_schemas_from_operation(data, list) ==
    IF ~data.hasContent THEN list ELSE AddMedia(data.content, list)

RECURSIVE AddResponses(_, _)
AddResponses(rs, list) ==
    IF rs = <<>> THEN list
    ELSE AddResponses(Tail(rs), add_schemas_from_operation(Head(rs), list))

\* Lines 48-53 without the KeyError: the seeds of an operation object.
Seeds(op) ==
    AddResponses(op.responses.values,
                 IF op.requestBody # <<>>
                 THEN add_schemas_from_operation(op.requestBody[1], <<>>)
                 ELSE <<>>)

\* Lines 47-54: the next verb of the path; its seeds are collected.
ParseOperation ==
    /\ pc = "verbs"
    /\ \E v \in verbsLeft :
        /\ curVerb' = v
        /\ verbsLeft' = verbsLeft \ {v}
        /\ LET op == SpecPaths[curPath][v] IN
            IF ~op.responses.present
            THEN /\ Fail("KeyError: 'responses'")
                 /\ UNCHANGED <<schemas, todo>>
            ELSE /\ schemas' = Seeds(op)
                 /\ todo' = Range(Seeds(op))
                 /\ pc' = "closure"
                 /\ err' = err
    /\ stack' = <<>>
    /\ expanded' = <<>>
    /\ UNCHANGED <<tops, comps, all_schemas, pathsLeft, curPath, result,
                   operations_list, operations, selected, reduced_spec>>

\* Line 29 without the membership test.
AllMatches(matches, schema_list) == matches

\* Line 29.
NewMatches(matches, schema_list) ==
    SelectSeq(matches, LAMBDA m : m \notin Range(schema_list))

\* Lines 28-30: one call of add_missing_schemas, up to its loop.
Call(schema, frames) ==
    IF schema \notin DOMAIN all_schemas
    THEN /\ Fail("KeyError: all_schemas[schema]")
         /\ stack' = frames
         /\ UNCHANGED <<schemas, expanded>>
    ELSE LET new_matches == NewMatches(FindAll(all_schemas[schema]), schemas) IN
         /\ schemas' = schemas \o new_matches
         /\ stack' = Append(frames, new_matches)
         /\ expanded' = Append(expanded, schema)
         /\ UNCHANGED <<pc, err>>

\* Lines 54-55: the loop over set(schemas) calls add_missing_schemas on a seed.
ExpandSeed ==
    /\ pc = "closure"
    /\ stack = <<>>
    /\ \E s \in todo :
        /\ todo' = todo \ {s}
        /\ Call(s, <<>>)
    /\ UNCHANGED <<tops, comps, all_schemas, pathsLeft, curPath, verbsLeft, curVerb,
                   result, operations_list, operations, selected, reduced_spec>>

\* Lines 31-32: the loop over new_matches makes the recursive call.
Recurse ==
    /\ pc = "closure"
    /\ stack # <<>>
    /\ stack[Len(stack)] # <<>>
    /\ Call(Head(stack[Len(stack)]),
            [stack EXCEPT ![Len(stack)] = Tail(stack[Len(stack)])])
    /\ UNCHANGED <<tops, comps, all_schemas, pathsLeft, curPath, verbsLeft, curVerb,
                   result, todo, operations_list, operations, selected, reduced_spec>>

\* Line 32 exhausted: add_missing_schemas returns.
Return ==
    /\ pc = "closure"
    /\ stack # <<>>
    /\ stack[Len(stack)] = <<>>
    /\ stack' = SubSeq(stack, 1, Len(stack) - 1)
    /\ UNCHANGED <<tops, comps, all_schemas, pathsLeft, curPath, verbsLeft, curVerb,
                   result, schemas, todo, expanded, operations_list, operations,
                   selected, reduced_spec, pc, err>>

\* Line 65: list(set(schemas)), in each order the set can be listed.
ListOfSet(list) == Orderings(Range(list))

\* Lines 56-67: the Operation is appended to result.
FinishOperation ==
    /\ pc = "closure"
    /\ stack = <<>>
    /\ todo = {}
    /\ \E l \in ListOfSet(schemas) :
        result' = Append(result,
                         [op_id |-> SpecPaths[curPath][curVerb].operationId,
                          verb |-> curVerb,
                          path |-> curPath,
                          schemas |-> l])
    /\ pc' = "verbs"
    /\ UNCHANGED <<tops, comps, all_schemas, pathsLeft, curPath, verbsLeft, curVerb,
                   schemas, todo, stack, expanded, operations_list, operations,
                   selected, reduced_spec, err>>

\* Lines 69 and 85: parse_path returns and its result extends operations_list.
ReturnPath ==
    /\ pc = "verbs"
    /\ verbsLeft = {}
    /\ operations_list' = operations_list \o result
    /\ pc' = "paths"
    /\ UNCHANGED <<tops, comps, all_schemas, pathsLeft, curPath, verbsLeft, curVerb,
                   result, schemas, todo, stack, expanded, operations, selected,
                   reduced_spec, err>>

\* Line 87: {op.op_id: op for op in operations_list}; a later entry replaces an
\* earlier one with the same key.
DictById(list) ==
    [id \in {list[i].op_id : i \in DOMAIN list} |->
        list[CHOOSE i \in DOMAIN list :
                /\ list[i].op_id = id
                /\ \A j \in DOMAIN list : list[j].op_id = id => j <= i]]

\* Lines 87-93: the catalog.
BuildCatalog ==
    /\ pc = "paths"
    /\ pathsLeft = {}
    /\ operations' = DictById(operations_list)
    /\ pc' = "loaded"
    /\ UNCHANGED <<tops, comps, all_schemas, pathsLeft, curPath, verbsLeft, curVerb,
                   result, schemas, todo, stack, expanded, operations_list, selected,
                   reduced_spec, err>>

(* ----------------------- the reduced document ------------------------- *)

\* copy.copy(spec): a new document dict that shares the "components" dict.
ShallowCopy(t, c, r) ==
    [tops |-> (CopyRef :> t[r]) @@ t, comps |-> c, ref |-> CopyRef]

\* Line 134, copy.deepcopy(spec): a new document dict and a new "components"
\* dict.  Yields the heap after the copy and the reference of the copy.
DeepCopy(t, c, r) ==
    [tops |-> (CopyRef :> [paths |-> t[r].paths, components |-> CopyComponentsRef]) @@ t,
     comps |-> (CopyComponentsRef :> c[t[r].components]) @@ c,
     ref |-> CopyRef]

\* Lines 119-122 with an assignment in place of extend: one operation's schemas.
SchemasOfOne(sel) ==
    IF sel = {} THEN {} ELSE Range(operations[CHOOSE id \in sel : TRUE].schemas)

\* Lines 119-122: the schemas of the selected operations, as a set.
SelectedSchemas(sel) == UNION {Range(operations[id].schemas) : id \in sel}

\* Lines 140-143 with d[path] = {verb: entry}: the path item is replaced.
PutOnlyVerb(d, path, verb, entry) == (path :> (verb :> entry)) @@ d

\* Lines 140-143: d.setdefault(path, {}) and then d[path][verb] = entry.
PutVerb(d, path, verb, entry) ==
    LET item == IF path \in DOMAIN d THEN d[path] ELSE <<>>
    IN  (path :> ((verb :> entry) @@ item)) @@ d

\* Lines 138-143: the loop over the selected operations.  The right-hand side
\* spec["paths"][path][verb] is read from the heap as it is after setdefault.
RECURSIVE CopyOperations(_, _, _)
CopyOperations(t, r, ops) ==
    IF ops = {} THEN [tops |-> t, err |-> ""]
    ELSE LET o == CHOOSE o \in ops : TRUE
             d == t[r].paths
             t1 == [t EXCEPT ![r].paths =
                       IF o.path \in DOMAIN d THEN d ELSE (o.path :> <<>>) @@ d]
             src == PathsAt(t1, SpecRef)
         IN  IF o.path \notin DOMAIN src \/ o.verb \notin DOMAIN src[o.path]
             THEN [tops |-> t1, err |-> "KeyError: spec['paths'][path][verb]"]
             ELSE CopyOperations(
                      [t1 EXCEPT ![r].paths =
                          PutVerb(t1[r].paths, o.path, o.verb, src[o.path][o.verb])],
                      r, ops \ {o})

\* Lines 145-148: the loop over the selected schemas.
RECURSIVE CopySchemas(_, _, _, _)
CopySchemas(t, c, r, names) ==
    IF names = {} THEN [comps |-> c, err |-> ""]
    ELSE LET n == CHOOSE n \in names : TRUE
             src == SchemasAt(t, c, SpecRef)
         IN  IF n \notin DOMAIN src
             THEN [comps |-> c, err |-> "KeyError: spec['components']['schemas'][schema]"]
             ELSE CopySchemas(
                      t,
                      [c EXCEPT ![t[r].components].schemas = (n :> src[n]) @@ @],
                      r, names \ {n})

\* Lines 116-148, one run of the script after the load: the selection is read
\* from the toggles (keys outside the catalog were deleted, lines 112-114), the
\* two progress bars divide by the sizes of the catalog and of the schema index,
\* and the reduced document is built.
Reduce ==
    /\ pc \in {"loaded", "done"}
    /\ \E sel \in SUBSET DOMAIN operations :
        /\ selected' = sel
        /\ IF DOMAIN operations = {} \/ DOMAIN all_schemas = {}
           THEN /\ Fail("ZeroDivisionError")
                /\ UNCHANGED <<tops, comps, reduced_spec>>
           ELSE LET copy == DeepCopy(tops, comps, SpecRef)
                    r == copy.ref
                    t1 == [copy.tops EXCEPT ![r].paths = <<>>]
                    c1 == [copy.comps EXCEPT ![t1[r].components].schemas = <<>>]
                    p == CopyOperations(t1, r, {operations[id] : id \in sel})
                    s == CopySchemas(p.tops, c1, r, SelectedSchemas(sel))
                IN  /\ reduced_spec' = r
                    /\ tops' = p.tops
                    /\ comps' = IF p.err = "" THEN s.comps ELSE c1
                    /\ IF p.err # "" THEN Fail(p.err)
                       ELSE IF s.err # "" THEN Fail(s.err)
                       ELSE pc' = "done" /\ err' = err
    /\ UNCHANGED <<all_schemas, pathsLeft, curPath, verbsLeft, curVerb, result, schemas,
                   todo, stack, expanded, operations_list, operations>>

ReducedPaths == PathsAt(tops, reduced_spec)
ReducedSchemas == SchemasAt(tops, comps, reduced_spec)

(* --------------------------- specification ---------------------------- *)

ClosureStep == ExpandSeed \/ Recurse \/ Return \/ FinishOperation

Next ==
    \/ LoadApiSpec
    \/ NextPath
    \/ ParseOperation
    \/ ExpandSeed
    \/ Recurse
    \/ Return
    \/ FinishOperation
    \/ ReturnPath
    \/ BuildCatalog
    \/ Reduce

Spec == Init /\ [][Next]_vars

(* ------------------- definitions the properties use ------------------- *)

\* The operations of the source document, each with its place.
SourceOps ==
    UNION {{[path |-> p, verb |-> v, op |-> SpecPaths[p][v]] : v \in DOMAIN SpecPaths[p]} :
             p \in DOMAIN SpecPaths}

DistinctIds ==
    \A a, b \in SourceOps : a.op.operationId = b.op.operationId => a = b

\* The source operation object an Operation record was made from.
SourceOf(o) == SpecPaths[o.path][o.verb]

\* Every Operation record built so far.
Built == Range(operations_list \o result)

\* The names a schema definition references: the targets of its "$ref" strings.
Referenced(def) == {SubSeq(r, 2, Len(r)) : r \in Range(def)}

\* The names the pattern #/components/schemas/(\w+) captures in a definition.
Captured(def) == {WordRun(SubSeq(r, 2, Len(r))) : r \in Range(def)} \ {<<>>}

\* The least set that holds `names` and, with each member that is a key of
\* `edges`, the names edges gives for it.
RECURSIVE ReachVia(_, _)
ReachVia(names, edges) ==
    LET more == names \cup UNION {edges[n] : n \in names \cap DOMAIN edges}
    IN  IF more = names THEN names ELSE ReachVia(more, edges)

ReferenceEdges == [n \in DOMAIN SpecSchemas |-> Referenced(SpecSchemas[n])]
CaptureEdges == [n \in DOMAIN SpecSchemas |-> Captured(SpecSchemas[n])]

\* The names referenced anywhere inside an operation object.
RefsOfPayload(d) ==
    UNION {Referenced(d.content[i].ref) \cup Referenced(d.content[i].nested) :
             i \in DOMAIN d.content}

RefsOfOperation(op) ==
    UNION {RefsOfPayload(d) : d \in Range(op.requestBody) \cup Range(op.responses.values)}

(* ----------------------------- properties ----------------------------- *)

\* C1: for a document whose operations have distinct identifiers and any
\* selection, the reduced `paths` holds exactly the (path, verb) entries of the
\* selected operations, each equal to the source entry and merged under one key
\* per path, and the reduced `components.schemas` holds exactly the entries
\* named in the union of the selected operations' schema sets, each equal to
\* the source definition.
C1_ReducedHoldsExactlySelection ==
    (pc = "done" /\ DistinctIds) =>
        LET chosen == {a \in SourceOps : a.op.operationId \in selected}
            names == UNION {Range(operations[id].schemas) : id \in selected}
        IN  /\ DOMAIN ReducedPaths = {a.path : a \in chosen}
            /\ \A p \in DOMAIN ReducedPaths :
                /\ DOMAIN ReducedPaths[p] = {a.verb : a \in {b \in chosen : b.path = p}}
                /\ \A v \in DOMAIN ReducedPaths[p] : ReducedPaths[p][v] = SpecPaths[p][v]
            /\ DOMAIN ReducedSchemas = names
            /\ \A n \in names : n \in DOMAIN SpecSchemas /\ ReducedSchemas[n] = SpecSchemas[n]

\* C1 witness: two operations on one path, both selected, with different schemas.
C1_Witness ==
    /\ pc = "done"
    /\ DistinctIds
    /\ Cardinality(selected) = 2
    /\ \E p \in DOMAIN ReducedPaths : Cardinality(DOMAIN ReducedPaths[p]) = 2
    /\ Cardinality(DOMAIN ReducedSchemas) = 2

\* The operation objects and the schema definitions the reduced document keeps.
RetainedOps ==
    UNION {{ReducedPaths[p][v] : v \in DOMAIN ReducedPaths[p]} : p \in DOMAIN ReducedPaths}

RetainedRefs ==
    UNION {RefsOfOperation(op) : op \in RetainedOps}
    \cup UNION {Referenced(ReducedSchemas[n]) : n \in DOMAIN ReducedSchemas}

\* C2: in the reduced document no reference that resolved in the source
\* dangles: every name referenced inside a retained operation object or inside
\* a retained schema definition, and a key of the source schemas, is a key of
\* the reduced schemas.
C2_NoDanglingReference ==
    pc = "done" =>
        \A n \in RetainedRefs : n \in DOMAIN SpecSchemas => n \in DOMAIN ReducedSchemas

\* C3 as stated: with every operation identifier selected, the reduced `paths`
\* and `components.schemas` equal the source's.
C3_RoundTrip ==
    (pc = "done" /\ selected = {a.op.operationId : a \in SourceOps}) =>
        /\ ReducedPaths = SpecPaths
        /\ ReducedSchemas = SpecSchemas

\* The seeds of the operations the catalog holds.
CatalogSeeds == UNION {Range(Seeds(SourceOf(operations[id]))) : id \in DOMAIN operations}

\* C3 as amended: with every identifier of the catalog selected, the reduced
\* `paths` holds exactly the entries of the catalog's operations (with distinct
\* identifiers: the source's `paths` less the path items that hold no
\* operation), and the reduced `components.schemas` is the source's restricted
\* to the names reachable from the seeds of the catalog's operations through
\* the captures of #/components/schemas/(\w+); a schema that no operation
\* reaches is dropped.
C3_RoundTripOfReachable ==
    (pc = "done" /\ selected = DOMAIN operations) =>
        LET kept == {p \in DOMAIN SpecPaths : DOMAIN SpecPaths[p] # {}}
            reach == ReachVia(CatalogSeeds, CaptureEdges)
        IN  /\ \A p \in DOMAIN ReducedPaths, v \in {"get", "post"} :
                 v \in DOMAIN ReducedPaths[p] =>
                    /\ \E id \in selected : operations[id].path = p /\ operations[id].verb = v
                    /\ ReducedPaths[p][v] = SpecPaths[p][v]
            /\ \A id \in selected :
                 /\ operations[id].path \in DOMAIN ReducedPaths
                 /\ operations[id].verb \in DOMAIN ReducedPaths[operations[id].path]
            /\ DistinctIds => ReducedPaths = [p \in kept |-> SpecPaths[p]]
            /\ ReducedSchemas = [n \in reach |-> SpecSchemas[n]]

\* C3 witness: everything is selected and a schema of the source is dropped.
C3_Witness ==
    /\ pc = "done"
    /\ selected = DOMAIN operations
    /\ DistinctIds
    /\ DOMAIN ReducedSchemas # {}
    /\ DOMAIN ReducedSchemas # DOMAIN SpecSchemas

\* C4: when every reference resolves, an operation's schema set is the
\* transitive closure of its seeds under the direct-reference relation.
AllResolve(op) ==
    /\ Range(Seeds(op)) \subseteq DOMAIN SpecSchemas
    /\ \A n \in DOMAIN SpecSchemas : Referenced(SpecSchemas[n]) \subseteq DOMAIN SpecSchemas

C4_SchemaSetIsClosure ==
    \A o \in Built :
        AllResolve(SourceOf(o)) =>
            Range(o.schemas) = ReachVia(Range(Seeds(SourceOf(o))), ReferenceEdges)

\* What the closure computation of the current operation has left to do: the
\* pending calls (twice), the open frames, and the room left in the list, which
\* never grows past the seeds plus one entry per reference of the index.
Measure ==
    2 * (Cardinality(todo) + SumLen(stack)) + Len(stack)
    + 2 * (Len(Seeds(SpecPaths[curPath][curVerb])) + TotalRefs(SpecSchemas) - Len(schemas))

ClosureProgress ==
    pc = "closure" =>
        /\ Measure >= 0
        /\ pc' = "closure" => Measure' < Measure

\* C5: the closure computation terminates, cycles included: while it runs a
\* step of it can always be taken, and every step lowers a measure that stays
\* a natural number, so it is left after finitely many steps; and the schema
\* set it yields holds no name twice.
C5_ClosureTerminates ==
    /\ [][ClosureProgress]_vars
    /\ [](pc = "closure" => ENABLED ClosureStep)
    /\ [](\A o \in Built : NoDuplicates(o.schemas))

\* C5 witness: the closure of an operation is finished and ran through the
\* cycle A -> B -> A.
C5_Witness ==
    /\ pc = "verbs"
    /\ result # <<>>
    /\ NameA \in DOMAIN all_schemas /\ NameB \in DOMAIN all_schemas
    /\ FindAll(all_schemas[NameA]) = <<NameB>>
    /\ FindAll(all_schemas[NameB]) = <<NameA>>
    /\ Range(expanded) = {NameA, NameB}

\* C6: a catalog is never built from a document in which two operations share
\* an identifier.
C6_DuplicateIdRejected ==
    pc \in {"loaded", "done"} => DistinctIds

\* C7: a name that is not a key of the schema index is a leaf: the closure
\* computation does not fail on it.
C7_UnknownNameTolerated ==
    err # "KeyError: all_schemas[schema]"

\* C8: an operation object with no request body and no responses is extracted
\* without an error, with an empty schema set.
Bare(op) == op.requestBody = <<>> /\ ~op.responses.present

C8_BareOperationExtracted ==
    /\ (curVerb # "" /\ Bare(SpecPaths[curPath][curVerb])) => err # "KeyError: 'responses'"
    /\ \A o \in Built : Bare(SourceOf(o)) => o.schemas = <<>>

\* The source document, read through the heap.
SourceDocument == [paths |-> SpecPaths, schemas |-> SpecSchemas]

ReductionFrame ==
    pc \in {"loaded", "done"} =>
        (SourceDocument' = SourceDocument /\ operations' = operations)

\* C9: a reduction leaves the source document and the catalog as they were.
C9_ReductionIsPure ==
    [][ReductionFrame]_vars

\* C9 witness: a reduction has built a document that differs from the source.
C9_Witness ==
    /\ pc = "done"
    /\ selected # {}
    /\ ReducedSchemas # SpecSchemas
    /\ ReducedPaths # SpecPaths

\* C10: within the closure computation of one operation no name is expanded
\* more than once.
C10_ExpandedOnce ==
    NoDuplicates(expanded)

====
